---- MODULE Spec2Model ----
(***************************************************************************)
(* Seen-set diffing and persistence of ProductionUdemyAgent                *)
(* (src/udemy_agent_production.py).                                        *)
(*                                                                         *)
(* One poll cycle (check_for_new_courses) is modelled as the sequence of   *)
(* its program positions: fetch, the per-course loop, the notifier call,   *)
(* the commit of new entries, the commit of pending updates, the save, the *)
(* prune pass, the return.  The process may crash at any position and is   *)
(* restarted by constructing a new agent, which reloads the seen-set file. *)
(*                                                                         *)
(* Time is the reading of datetime.now() at day resolution.  Every call of *)
(* datetime.now() is a separate reading of the clock: two successive       *)
(* readings may differ.                                                    *)
(***************************************************************************)
EXTENDS Integers, Sequences, FiniteSets, TLC

\* ------------------------------------------------------------------ bounds
MaxCycles == 2          \* cycles started in one behaviour
MaxCrashes == 1         \* crashes in one behaviour
MaxFetch == 2           \* longest list the listing source returns
MaxSmall == 1           \* one-day clock advances between two long sleeps
MaxCyclesLong == 6      \* cycles started in one behaviour of the failure-counting runs

\* ------------------------------------------------------- program constants
RETENTION_DAYS == 30            \* timedelta(days=30)
CHECK_INTERVAL_DAYS == 1        \* config.py: CHECK_INTERVAL_HOURS = 24
max_consecutive_failures == 5

\* ------------------------------------------------------------------- clock
StartTime == RETENTION_DAYS + 1         \* clock reading when the first agent starts
\* a long pause between two cycles of the model: RETENTION_DAYS scheduler intervals of
\* CHECK_INTERVAL_HOURS = 24 hours with nothing new to record, or as long a downtime
BigStep == RETENTION_DAYS
MaxTime == StartTime + BigStep + MaxSmall

\* ------------------------------------------------------------ value domains
Ids == {"a", "b"}

\* what the listing source can return for one course: {id, title, url}
Items == { [id |-> "a", title |-> "A", url |-> "u/a"],
           [id |-> "b", title |-> "B", url |-> "u/b"] }

RECURSIVE SeqsUpTo(_)
SeqsUpTo(n) ==
    IF n = 0 THEN { << >> }
    ELSE LET S == SeqsUpTo(n - 1)
         IN  S \cup { Append(s, x) : s \in { t \in S : Len(t) = n - 1 }, x \in Items }

\* the lists get_free_programming_courses() can return
Fetches == SeqsUpTo(MaxFetch)

EmptyMap == [x \in {} |-> x]

\* a stored timestamp string, by what datetime.fromisoformat makes of it:
\*   naive   - parses to a datetime without tzinfo (what isoformat() of now() writes)
\*   aware   - parses to a datetime with tzinfo ("...Z" or "...+00:00")
\*   bad     - does not parse (or is not a string)
\*   none    - key missing or empty
Stamp(k, t) == [k |-> k, t |-> t]
Naive(t) == Stamp("naive", t)

SeenEntry(title, url, fs, ls, cnt) ==
    [title |-> title, url |-> url, first_seen |-> fs, last_seen |-> ls, seen_count |-> cnt]

\* ------------------------------------------------------- seen-set file
FileOk(m) == [kind |-> "ok", seen |-> m]
FileMissing == [kind |-> "missing", seen |-> EmptyMap]
FileMalformed == [kind |-> "malformed", seen |-> EmptyMap]
FileNotDict == [kind |-> "notdict", seen |-> EmptyMap]

\* no backup file exists
NoBackup == [kind |-> "absent", seen |-> EmptyMap]

\* the ids recorded in the persisted seen_courses map
FileIds(f) == DOMAIN f.seen

\* seen_courses maps an existing file may hold when the first agent starts: entries
\* 31, 30 and 29 days old at StartTime, and entries whose last_seen is not a naive
\* timestamp
OldA(ls) == SeenEntry("A", "u/a", 0, ls, 1)
OldB(ls) == SeenEntry("B", "u/b", 1, ls, 2)
InitMaps ==
    { EmptyMap,
      [x \in {"a", "b"} |-> IF x = "a" THEN OldA(Naive(0)) ELSE OldB(Naive(2))],
      [x \in {"a", "b"} |-> IF x = "a" THEN OldA(Stamp("aware", 0)) ELSE OldB(Stamp("bad", 0))],
      [x \in {"a"} |-> OldA(Stamp("none", 0))],
      [x \in {"b"} |-> OldB(Naive(1))] }

InitFiles == { FileMissing, FileMalformed, FileNotDict } \cup { FileOk(m) : m \in InitMaps }

\* _load_seen_courses: the dictionary the constructor starts from
LoadSeenCourses(f) == IF f.kind = "ok" THEN f.seen ELSE EmptyMap

\* lines 114-122: a file that cannot be read as a JSON object is copied to the backup
\* path inside the except handler; shutil.copy is not guarded, so when the copy fails
\* its exception leaves _load_seen_courses and the constructor
LoadRaises(f, copy_ok) == f.kind = "malformed" /\ ~copy_ok
BackupAfterLoad(f, b, copy_ok) == IF f.kind = "malformed" /\ copy_ok THEN f ELSE b

\* ------------------------------------------------------------------ state
VARIABLES
    now,                    \* the clock
    file,                   \* SEEN_COURSES_FILE on disk
    seen_courses,           \* self.seen_courses
    pc,                     \* position of the agent in check_for_new_courses
    courses,                \* local: the fetched list
    idx,                    \* local: loop index into courses
    new_courses,            \* local: the new-items batch
    current_course_ids,     \* local: prepared entries, by id
    success,                \* local: notifier result, "none" before the call
    fetch_kind,             \* how the fetch of this cycle ended, "unset" before it
    result,                 \* return value of the last finished cycle
    consecutive_failures,   \* self.consecutive_failures
    health_status,          \* self.health_status
    last_successful_check,  \* self.last_successful_check, -1 for None
    scraper,                \* self.scraper: "none", "nodriver" (driver is None), "driver"
    is_running,             \* self.is_running
    hpc,                    \* position of the health-monitor thread
    backup,                 \* SEEN_COURSES_FILE.backup on disk
    probe,                  \* history: what the last liveness probe of the monitor did
    \* history variables
    ncycles, ncrashes,
    seen0,                  \* seen_courses at the start of the cycle
    calls,                  \* notifier calls made in the cycle
    saves,                  \* save attempts made in the cycle
    lastSave,               \* outcome of the most recent save attempt of the process
    initIds,                \* ids in the file the first agent loaded
    notified,               \* ids contained in a batch the notifier accepted
    trueCalls,              \* notifier calls of this process that returned true
    failedNew,              \* ids the notifier refused and the agent has not batched again
    prevFetch, prevSuccess, \* fetched items and notifier result of the previous cycle
    cf0,                    \* consecutive_failures at the start of the cycle
    failStreak,             \* cycles in a row, up to now, that counted a failure
    restarts,               \* calls of _restart_scraper made from the cycle in progress
    loadRaised,             \* the last _load_seen_courses raised instead of returning
    health_file,            \* status in logs/health_status.json, "absent" before a write
    sched,                  \* position of the main thread in run_scheduler
    slept,                  \* local of run_scheduler: seconds counted by the sleep loop
    elapsed,                \* history: seconds really slept since the last cycle ended
    \* the basic agent of udemy_agent.py
    basic_pc,               \* position of UdemyAgent in check_for_new_courses
    basic_seen,             \* UdemyAgent.seen_courses, a set of ids
    basic_file,             \* SEEN_COURSES_FILE as UdemyAgent reads and writes it
    basic_new,              \* local: new_courses
    basic_current,          \* local: current_course_ids
    basic_course_id,        \* local: course_id, the loop variable of line 66
    basic_success,          \* local: notifier result, "none" before the call
    basic_seen0,            \* history: seen_courses at the start of the cycle
    basic_lastSave,         \* history: outcome of the most recent save attempt
    basic_result,           \* history: how the last cycle ended
    basic_cycles            \* history: cycles begun

vars == << now, file, seen_courses, pc, courses, idx, new_courses, current_course_ids,
           success, fetch_kind, result, consecutive_failures, health_status,
           last_successful_check, scraper, is_running, hpc, backup, probe,
           ncycles, ncrashes, seen0, calls, saves, lastSave, initIds, notified,
           trueCalls, failedNew, prevFetch, prevSuccess,
           cf0, failStreak, restarts, loadRaised, health_file, sched, slept, elapsed,
           basic_pc, basic_seen, basic_file, basic_new, basic_current, basic_course_id,
           basic_success, basic_seen0, basic_lastSave, basic_result, basic_cycles >>

locals == << courses, idx, new_courses, current_course_ids, success, fetch_kind >>
history == << ncycles, ncrashes, seen0, calls, saves, lastSave, initIds, notified,
              trueCalls, failedNew, prevFetch, prevSuccess >>

\* the health-monitor thread and the shutdown flag
monitor == << is_running, hpc, probe >>
\* what the recovery logic reads and writes besides consecutive_failures
recovery == << last_successful_check, scraper >>
\* history variables of the failure counting
counting == << cf0, failStreak, restarts >>

\* the state of the production agent
agent == << now, file, seen_courses, pc, courses, idx, new_courses, current_course_ids,
            success, fetch_kind, result, consecutive_failures, health_status,
            last_successful_check, scraper, is_running, hpc, backup, probe,
            ncycles, ncrashes, seen0, calls, saves, lastSave, initIds, notified,
            trueCalls, failedNew, prevFetch, prevSuccess,
            cf0, failStreak, restarts, loadRaised, health_file, sched, slept, elapsed >>
\* the main thread inside run_scheduler
scheduler == << sched, slept, elapsed >>
\* the state of the basic agent
basic == << basic_pc, basic_seen, basic_file, basic_new, basic_current, basic_course_id,
            basic_success, basic_seen0, basic_lastSave, basic_result, basic_cycles >>
\* what check_for_new_courses of the production agent never touches
outside == << health_file, scheduler, basic >>

\* no liveness probe made yet
NoProbe == [outcome |-> "unset", restarted |-> FALSE]

\* lines 49-57; last_check is None (-1) until the first cycle; courses_found, start_time
\* and pid are written and never read and are left out
InitHealth == [status |-> "starting", last_check |-> -1, emails_sent |-> 0, errors |-> 0]

\* SEEN_COURSES_FILE as udemy_agent.py uses it: 'seen_courses' holds a list of ids
BasicFileOk(ids) == [kind |-> "ok", ids |-> ids]
BasicFileMissing == [kind |-> "missing", ids |-> {}]
BasicFileMalformed == [kind |-> "malformed", ids |-> {}]
BasicInitFiles == { BasicFileMissing, BasicFileMalformed }
                  \cup { BasicFileOk(ids) : ids \in SUBSET Ids }

\* udemy_agent.py lines 27-38: a missing or unreadable file gives the empty set
BasicLoadSeenCourses(f) == IF f.kind = "ok" THEN f.ids ELSE {}

\* no basic agent has been constructed
BasicAbsent ==
    /\ basic_pc = "off"
    /\ basic_file = BasicFileMissing
    /\ basic_seen = {}
    /\ basic_new = << >> /\ basic_current = {} /\ basic_course_id = "unset"
    /\ basic_success = "none"
    /\ basic_seen0 = {} /\ basic_lastSave = "none" /\ basic_result = "none"
    /\ basic_cycles = 0

\* the production agent after construction
InitAgent ==
    /\ now = StartTime
    /\ file \in InitFiles
    /\ seen_courses = LoadSeenCourses(file)
    /\ \E copy_ok \in BOOLEAN :
          /\ loadRaised = LoadRaises(file, copy_ok)
          /\ backup = BackupAfterLoad(file, NoBackup, copy_ok)
          /\ pc = IF LoadRaises(file, copy_ok) THEN "crashed" ELSE "idle"
    /\ last_successful_check = -1
    /\ scraper = "none"
    /\ is_running = FALSE /\ hpc = "off"
    /\ probe = NoProbe
    /\ cf0 = 0 /\ failStreak = 0 /\ restarts = 0
    /\ courses = << >> /\ idx = 1 /\ new_courses = << >>
    /\ current_course_ids = EmptyMap
    /\ success = "none"
    /\ fetch_kind = "unset"
    /\ result = "none"
    /\ consecutive_failures = 0
    /\ health_status = InitHealth
    /\ ncycles = 0 /\ ncrashes = 0
    /\ seen0 = EmptyMap
    /\ calls = 0 /\ saves = 0 /\ lastSave = "none"
    /\ initIds = FileIds(file)
    /\ notified = {}
    /\ trueCalls = 0
    /\ failedNew = {}
    /\ prevFetch = {} /\ prevSuccess = "none"
    /\ health_file = "absent"
    /\ sched = "off" /\ slept = 0 /\ elapsed = 0

Init == InitAgent /\ BasicAbsent

\* ----------------------------------------------------------------- helpers
Range(s) == { s[i] : i \in 1..Len(s) }
IdsOf(s) == { s[i].id : i \in 1..Len(s) }
FetchedIds == IdsOf(courses)
NewIds == IdsOf(new_courses)
LoopDone == pc \in {"notify", "commit_new", "save_new", "update", "save", "cleanup", "finish"}

\* the clock may advance by one day while a cycle runs, MaxSmall times between long sleeps
SmallTicks == IF now < MaxTime /\ (now - StartTime) % BigStep < MaxSmall THEN {0, 1} ELSE {0}

\* _save_seen_courses(course_ids): outcome "ok" rewrites the file; open() can fail
\* and leave the file as it was; json.dump can fail after open() truncated the file
SaveOutcomes == {"ok", "open_failed", "dump_failed"}
SavedFile(outcome, course_ids) ==
    CASE outcome = "ok"          -> FileOk(course_ids)
      [] outcome = "open_failed" -> file
      [] outcome = "dump_failed" -> FileMalformed
SaveStatus(outcome) == IF outcome = "ok" THEN "ok" ELSE "failed"

\* variant: first_seen is stamped anew on every sighting
PreparedEntryFreshFirstSeen(course, r2, r3) ==
    LET known == course.id \in DOMAIN seen_courses
        existing == seen_courses[course.id]
    IN  SeenEntry(course.title, course.url, r3, Naive(r2),
                  IF known THEN existing.seen_count + 1 ELSE 1)

\* lines 177-187: the entry prepared for one fetched course; r2 and r3 are the clock
\* readings of line 181 and line 187
PreparedEntry(course, r2, r3) ==
    LET known == course.id \in DOMAIN seen_courses
        existing == seen_courses[course.id]
    IN  SeenEntry(course.title, course.url,
                  IF known THEN existing.first_seen ELSE r3,
                  Naive(r2),
                  IF known THEN existing.seen_count + 1 ELSE 1)

\* variant: the success branch commits nothing
CommittedNewNone(seen, batch, current) == seen

\* lines 200-203: the new entries written after a successful notification
CommittedNew(seen, batch, current) ==
    [id \in DOMAIN seen \cup (IdsOf(batch) \cap DOMAIN current) |->
        IF id \in IdsOf(batch) /\ id \in DOMAIN current THEN current[id] ELSE seen[id]]

\* variant: every prepared entry is written, new or not
UpdatedExistingAll(seen, current) ==
    [id \in DOMAIN seen \cup DOMAIN current |->
        IF id \in DOMAIN current THEN current[id] ELSE seen[id]]

\* variant: the pending updates are dropped
UpdatedExistingNone(seen, current) == seen

\* variant: ids absent from the fetch are dropped, as UdemyAgent does
UpdatedExistingIntersect(seen, current) ==
    [id \in DOMAIN seen \cap DOMAIN current |-> current[id]]

\* lines 218-220: pending updates are written for ids already in seen_courses
UpdatedExisting(seen, current) ==
    [id \in DOMAIN seen |-> IF id \in DOMAIN current THEN current[id] ELSE seen[id]]

\* variant: the notifier is called whatever the batch
AfterLoopAlways(batch) == "notify"

\* line 191: with a non-empty batch the notifier is called, else line 215
AfterLoop(batch) == IF batch # << >> THEN "notify" ELSE "update"

\* variant: the prune pass never saves
CleanupNeverSaves(courses_to_remove) == FALSE

\* line 285: the prune pass saves only when it removed something
CleanupSaves(courses_to_remove) == courses_to_remove # {}

\* variant: the prune pass selects nothing
ToRemoveNever(metadata, cutoff_date) == FALSE

\* lines 271-280: does the prune pass select this entry for removal?
\* an aware datetime compared with the naive cutoff raises TypeError, which the bare
\* except swallows like a parse error
ToRemove(metadata, cutoff_date) ==
    CASE metadata.last_seen.k = "none"  -> FALSE
      [] metadata.last_seen.k = "bad"   -> FALSE
      [] metadata.last_seen.k = "aware" -> FALSE
      [] metadata.last_seen.k = "naive" -> metadata.last_seen.t < cutoff_date

CoursesToRemove(seen, cutoff_date) == { id \in DOMAIN seen : ToRemove(seen[id], cutoff_date) }

Without(seen, ids) == [id \in DOMAIN seen \ ids |-> seen[id]]

\* ----------------------------------------------------------------- actions
\* the frame of check_for_new_courses is gone once it has returned
ClearLocals ==
    /\ courses' = << >> /\ idx' = 1 /\ new_courses' = << >>
    /\ current_course_ids' = EmptyMap
    /\ success' = "none"
    /\ fetch_kind' = "unset"
    /\ seen0' = EmptyMap
    /\ calls' = 0 /\ saves' = 0

\* lines 143-152: a cycle begins; the scraper object is created if there is none
CycleBegin(n) ==
    /\ pc = "idle"
    /\ ncycles < n
    /\ pc' = "fetch"
    /\ courses' = << >> /\ idx' = 1 /\ new_courses' = << >>
    /\ current_course_ids' = EmptyMap
    /\ success' = "none"
    /\ fetch_kind' = "unset"
    /\ result' = "none"
    /\ ncycles' = ncycles + 1
    /\ seen0' = seen_courses
    /\ calls' = 0 /\ saves' = 0
    /\ health_status' = [health_status EXCEPT !.last_check = now]
    /\ scraper' = IF scraper = "none" THEN "nodriver" ELSE scraper
    /\ cf0' = consecutive_failures
    /\ restarts' = 0
    /\ UNCHANGED << now, file, seen_courses, consecutive_failures,
                    ncrashes, lastSave, initIds, notified, trueCalls, failedNew,
                    prevFetch, prevSuccess >>
    /\ UNCHANGED << last_successful_check, failStreak, loadRaised, backup, monitor >>
    /\ UNCHANGED << health_file, basic >>

\* a cycle begun by run_once or by a scheduler whose position is not followed
CycleStartUpTo(n) == CycleBegin(n) /\ UNCHANGED scheduler

CycleStart == CycleStartUpTo(MaxCycles)

\* lines 155-162: the listing source returns a list, returns None, or raises; it also
\* returns [] when it could not set up its driver (selenium_scraper.py lines 68-69)
FetchResults ==
    { [kind |-> "list", items |-> c] : c \in Fetches }
    \cup { [kind |-> "none", items |-> << >>], [kind |-> "raise", items |-> << >>],
           [kind |-> "setup_failed", items |-> << >>] }

\* the fetches of the failure-counting runs: nothing, one course, or a failure
FetchResultsLong ==
    { r \in FetchResults : r.kind # "list" \/ r.items \in { << >>, << [id |-> "a", title |-> "A", url |-> "u/a"] >> } }

\* selenium_scraper.py lines 64-153: a call that got as far as creating a driver
\* leaves scraper.driver set; a call whose _setup_driver failed returns [] and leaves
\* scraper.driver as it was
DriverAfter(r, sc) == IF r.kind = "setup_failed" THEN sc ELSE "driver"

\* variant: an exception of the fetch leaves check_for_new_courses
OnRaisePropagates == "crashed"

\* lines 145 and 233: the try block spans the whole body, an exception lands in the
\* except branch
OnRaise == "except"

FetchFrom(R) ==
    /\ UNCHANGED outside
    /\ pc = "fetch"
    /\ \E r \in R :
          /\ courses' = r.items
          /\ fetch_kind' = r.kind
          /\ pc' = CASE r.kind = "raise"  -> OnRaise
                     [] r.items = << >>   -> AfterLoop(<< >>)
                     [] OTHER             -> "loop"
          /\ scraper' = DriverAfter(r, scraper)
    /\ UNCHANGED << now, file, seen_courses, idx, new_courses, current_course_ids, success,
                    result, consecutive_failures, health_status >>
    /\ UNCHANGED history
    /\ UNCHANGED << last_successful_check, loadRaised, backup, monitor, counting >>

Fetch == FetchFrom(FetchResults)

\* variant: every fetched course goes into the batch
IsNewAlways(course, seen) == TRUE

\* line 185: a course is new when its id is not a key of seen_courses
IsNew(course, seen) == course.id \notin DOMAIN seen

\* lines 168-188: one iteration of the loop over the fetched courses
ProcessCourse ==
    /\ UNCHANGED outside
    /\ pc = "loop"
    /\ \E d \in SmallTicks :
          LET course == courses[idx]
              entry == PreparedEntry(course, now, now + d)
              batch == IF IsNew(course, seen_courses)
                       THEN Append(new_courses, course) ELSE new_courses
          IN  /\ current_course_ids' =
                    [id \in DOMAIN current_course_ids \cup {course.id} |->
                        IF id = course.id THEN entry ELSE current_course_ids[id]]
              /\ new_courses' = batch
              /\ now' = now + d
              /\ idx' = idx + 1
              /\ pc' = IF idx < Len(courses) THEN "loop"
                        ELSE AfterLoop(batch)
    /\ UNCHANGED << file, seen_courses, courses, success, fetch_kind, result,
                    consecutive_failures, health_status >>
    /\ UNCHANGED history
    /\ UNCHANGED << loadRaised, backup, monitor, recovery, counting >>

\* variant: the new entries are committed whatever the notifier answered
NotifyIgnoringResult ==
    /\ UNCHANGED outside
    /\ pc = "notify"
    /\ \E ok \in BOOLEAN :
          /\ success' = IF ok THEN "true" ELSE "false"
          /\ notified' = IF ok THEN notified \cup NewIds ELSE notified
          /\ trueCalls' = IF ok THEN trueCalls + 1 ELSE trueCalls
          /\ failedNew' = IF ok THEN failedNew \ NewIds ELSE failedNew \cup NewIds
    /\ pc' = "commit_new"
    /\ calls' = calls + 1
    /\ UNCHANGED << now, file, seen_courses, courses, idx, new_courses, current_course_ids,
                    fetch_kind,
                    result, consecutive_failures, health_status, ncycles, ncrashes, seen0,
                    saves, lastSave, initIds, prevFetch, prevSuccess >>
    /\ UNCHANGED << loadRaised, backup, monitor, recovery, counting >>

\* lines 191-193, 210-213: the notifier is called with the batch and answers
Notify ==
    /\ UNCHANGED outside
    /\ pc = "notify"
    /\ \E ok \in BOOLEAN :
          /\ success' = IF ok THEN "true" ELSE "false"
          /\ pc' = IF ok THEN "commit_new" ELSE "update"
          /\ consecutive_failures' = IF ok THEN consecutive_failures
                                     ELSE consecutive_failures + 1
          /\ health_status' = IF ok THEN health_status
                              ELSE [health_status EXCEPT !.errors = @ + 1]
          /\ notified' = IF ok THEN notified \cup NewIds ELSE notified
          /\ trueCalls' = IF ok THEN trueCalls + 1 ELSE trueCalls
          /\ failedNew' = IF ok THEN failedNew \ NewIds ELSE failedNew \cup NewIds
    /\ calls' = calls + 1
    /\ UNCHANGED << now, file, seen_courses, courses, idx, new_courses, current_course_ids,
                    fetch_kind,
                    result, ncycles, ncrashes, seen0, saves, lastSave, initIds,
                    prevFetch, prevSuccess >>
    /\ UNCHANGED << loadRaised, backup, monitor, recovery, counting >>

\* lines 195-203: the notifier accepted the batch, the new entries are committed
CommitNew ==
    /\ UNCHANGED outside
    /\ pc = "commit_new"
    /\ health_status' = [health_status EXCEPT !.emails_sent = @ + 1]
    /\ seen_courses' = CommittedNew(seen_courses, new_courses, current_course_ids)
    /\ pc' = "save_new"
    /\ UNCHANGED << now, file, result, consecutive_failures >>
    /\ UNCHANGED locals
    /\ UNCHANGED history
    /\ UNCHANGED << loadRaised, backup, monitor, recovery, counting >>

\* lines 205-209: save after a successful notification, reset the failure count
SaveNew ==
    /\ UNCHANGED outside
    /\ pc = "save_new"
    /\ \E outcome \in SaveOutcomes :
          /\ file' = SavedFile(outcome, seen_courses)
          /\ lastSave' = SaveStatus(outcome)
    /\ saves' = saves + 1
    /\ consecutive_failures' = 0
    /\ pc' = "update"
    /\ UNCHANGED << now, seen_courses, result, health_status >>
    /\ UNCHANGED locals
    /\ UNCHANGED << ncycles, ncrashes, seen0, calls, initIds, notified, trueCalls,
                    failedNew, prevFetch, prevSuccess >>
    /\ UNCHANGED << loadRaised, backup, monitor, recovery, counting >>

\* lines 217-220: commit the pending updates of previously seen courses
UpdateExisting ==
    /\ UNCHANGED outside
    /\ pc = "update"
    /\ seen_courses' = UpdatedExisting(seen_courses, current_course_ids)
    /\ pc' = "save"
    /\ UNCHANGED << now, file, result, consecutive_failures, health_status >>
    /\ UNCHANGED locals
    /\ UNCHANGED history
    /\ UNCHANGED << loadRaised, backup, monitor, recovery, counting >>

\* line 222: the save at the end of every cycle
SaveAll ==
    /\ UNCHANGED outside
    /\ pc = "save"
    /\ \E outcome \in SaveOutcomes :
          /\ file' = SavedFile(outcome, seen_courses)
          /\ lastSave' = SaveStatus(outcome)
    /\ saves' = saves + 1
    /\ pc' = "cleanup"
    /\ UNCHANGED << now, seen_courses, result, consecutive_failures, health_status >>
    /\ UNCHANGED locals
    /\ UNCHANGED << ncycles, ncrashes, seen0, calls, initIds, notified, trueCalls,
                    failedNew, prevFetch, prevSuccess >>
    /\ UNCHANGED << loadRaised, backup, monitor, recovery, counting >>

\* lines 225, 259-295: _cleanup_old_courses
CleanupOldCourses ==
    /\ UNCHANGED outside
    /\ pc = "cleanup"
    /\ LET cutoff_date == now - RETENTION_DAYS
           courses_to_remove == CoursesToRemove(seen_courses, cutoff_date)
           kept == Without(seen_courses, courses_to_remove)
       IN  /\ seen_courses' = kept
           /\ IF CleanupSaves(courses_to_remove)
              THEN \E outcome \in SaveOutcomes :
                      /\ file' = SavedFile(outcome, kept)
                      /\ lastSave' = SaveStatus(outcome)
                      /\ saves' = saves + 1
              ELSE UNCHANGED << file, lastSave, saves >>
    /\ pc' = "finish"
    /\ UNCHANGED << now, result, consecutive_failures, health_status >>
    /\ UNCHANGED locals
    /\ UNCHANGED << ncycles, ncrashes, seen0, calls, initIds, notified, trueCalls,
                    failedNew, prevFetch, prevSuccess >>
    /\ UNCHANGED << loadRaised, backup, monitor, recovery, counting >>

\* lines 227-231: the cycle returns True
CycleSuccess ==
    /\ UNCHANGED outside
    /\ pc = "finish"
    /\ health_status' = [health_status EXCEPT !.status = "healthy"]
    /\ result' = "true"
    /\ pc' = "idle"
    /\ ClearLocals
    /\ prevFetch' = Range(courses)
    /\ prevSuccess' = success
    /\ last_successful_check' = now
    /\ failStreak' = IF success = "false" THEN failStreak + 1 ELSE 0
    /\ UNCHANGED << now, file, seen_courses, consecutive_failures >>
    /\ UNCHANGED << ncycles, ncrashes, lastSave, initIds, notified, trueCalls, failedNew >>
    /\ UNCHANGED << scraper, cf0, restarts, loadRaised, backup, monitor >>

\* lines 246-257: the outcomes of _restart_scraper for a scraper in state sc.
\* With no scraper a new one is made; with a scraper whose driver is None the call
\* scraper.driver.quit() raises AttributeError; with a driver, quit() may raise. When
\* it raises, the scraper is kept and consecutive_failures is not reset.
RestartScraperOutcomes(sc) ==
    CASE sc = "none"     -> { [ok |-> TRUE, scraper |-> "nodriver"] }
      [] sc = "nodriver" -> { [ok |-> FALSE, scraper |-> "nodriver"] }
      [] sc = "driver"   -> { [ok |-> TRUE, scraper |-> "nodriver"],
                              [ok |-> FALSE, scraper |-> "driver"] }

\* variant: recovery is tried only when the count reaches the maximum
RestartDueOnce(failures) == failures = max_consecutive_failures

\* line 240: restart_on_failure is True and never changed
RestartDue(failures) == failures >= max_consecutive_failures

\* lines 233-244 and 246-257: the except branch, with _restart_scraper
CycleException ==
    /\ UNCHANGED outside
    /\ pc = "except"
    /\ health_status' = [health_status EXCEPT !.errors = @ + 1, !.status = "error"]
    /\ IF RestartDue(consecutive_failures + 1)
       THEN \E r \in RestartScraperOutcomes(scraper) :
               /\ consecutive_failures' = IF r.ok THEN 0 ELSE consecutive_failures + 1
               /\ scraper' = r.scraper
               /\ restarts' = restarts + 1
       ELSE /\ consecutive_failures' = consecutive_failures + 1
            /\ UNCHANGED << scraper, restarts >>
    /\ failStreak' = failStreak + 1
    /\ result' = "false"
    /\ pc' = "idle"
    /\ ClearLocals
    /\ prevFetch' = {}
    /\ prevSuccess' = "exception"
    /\ UNCHANGED << now, file, seen_courses >>
    /\ UNCHANGED << ncycles, ncrashes, lastSave, initIds, notified, trueCalls, failedNew >>
    /\ UNCHANGED << last_successful_check, cf0, loadRaised, backup, monitor >>

\* lines 367-385: the scheduler sleeps between two cycles; one step is BigStep days
Sleep ==
    /\ UNCHANGED outside
    /\ pc = "idle"
    /\ now + BigStep <= MaxTime
    /\ now' = now + BigStep
    /\ UNCHANGED << file, seen_courses, pc, result, consecutive_failures, health_status >>
    /\ UNCHANGED locals
    /\ UNCHANGED history
    /\ UNCHANGED << loadRaised, backup, monitor, recovery, counting >>

\* the process dies and its memory is lost; a crash inside a write leaves a truncated file
Crash ==
    /\ pc # "crashed"
    /\ ncrashes < MaxCrashes
    /\ \E torn \in (IF pc \in {"save_new", "save", "cleanup"} THEN BOOLEAN ELSE {FALSE}) :
          file' = IF torn THEN FileMalformed ELSE file
    /\ pc' = "crashed"
    /\ ncrashes' = ncrashes + 1
    /\ seen_courses' = EmptyMap
    /\ ClearLocals
    /\ result' = "none"
    /\ consecutive_failures' = 0
    /\ health_status' = InitHealth
    /\ lastSave' = "none"
    /\ trueCalls' = 0
    /\ prevFetch' = {} /\ prevSuccess' = "none"
    /\ failedNew' = {}
    /\ last_successful_check' = -1
    /\ scraper' = "none"
    /\ is_running' = FALSE /\ hpc' = "off"
    /\ probe' = NoProbe
    /\ cf0' = 0 /\ failStreak' = 0 /\ restarts' = 0
    /\ loadRaised' = FALSE
    /\ sched' = "off" /\ slept' = 0 /\ elapsed' = 0
    /\ UNCHANGED << now, ncycles, initIds, notified, backup, health_file, basic >>

\* lines 34-57: a new agent is constructed and loads the file; if the load raises,
\* no agent exists
Restart ==
    /\ UNCHANGED outside
    /\ pc = "crashed"
    /\ \E copy_ok \in BOOLEAN :
          /\ loadRaised' = LoadRaises(file, copy_ok)
          /\ backup' = BackupAfterLoad(file, backup, copy_ok)
          /\ pc' = IF LoadRaises(file, copy_ok) THEN "crashed" ELSE "idle"
          /\ seen_courses' = IF LoadRaises(file, copy_ok) THEN EmptyMap
                             ELSE LoadSeenCourses(file)
    /\ consecutive_failures' = 0
    /\ health_status' = InitHealth
    /\ UNCHANGED << now, file, result >>
    /\ UNCHANGED locals
    /\ UNCHANGED history
    /\ UNCHANGED << monitor, recovery, counting >>

Next ==
    \/ CycleStart
    \/ Fetch
    \/ ProcessCourse
    \/ Notify
    \/ CommitNew
    \/ SaveNew
    \/ UpdateExisting
    \/ SaveAll
    \/ CleanupOldCourses
    \/ CycleSuccess
    \/ CycleException
    \/ Sleep
    \/ Crash
    \/ Restart

Spec == Init /\ [][Next]_vars

\* lines 354-361: run_scheduler sets the flag and starts the health-monitor thread
StartScheduler ==
    /\ pc = "idle"
    /\ ~is_running /\ hpc = "off"
    /\ is_running' = TRUE
    /\ hpc' = "wait"
    /\ UNCHANGED << now, file, seen_courses, pc, result, consecutive_failures, health_status,
                    probe, loadRaised, backup >>
    /\ UNCHANGED locals
    /\ UNCHANGED history
    /\ UNCHANGED << recovery, counting >>
    /\ UNCHANGED << health_file, basic >>

\* lines 354-364: run_scheduler begins; the cycle it runs at once is the next CycleStart
RunScheduler == StartScheduler /\ UNCHANGED scheduler

\* line 304: total_seconds() > CHECK_INTERVAL_HOURS * 3600 * 1.5, in days
Stale(t, last) == 2 * (t - last) > 3 * CHECK_INTERVAL_DAYS

\* lines 302-304: the tick acts only when a successful check exists and is stale
TickDue(t, last) == last >= 0 /\ Stale(t, last)

\* lines 299-306: a health tick finds the last successful check too old
TickCheck ==
    /\ UNCHANGED outside
    /\ hpc = "wait" /\ is_running
    /\ TickDue(now, last_successful_check)
    /\ health_status' = [health_status EXCEPT !.status = "degraded"]
    /\ hpc' = "probe"
    /\ UNCHANGED << now, file, seen_courses, pc, result, consecutive_failures,
                    is_running, probe, loadRaised, backup >>
    /\ UNCHANGED locals
    /\ UNCHANGED history
    /\ UNCHANGED << recovery, counting >>

\* line 309 reads self.scraper without a lock: while the cycle's thread is inside
\* _restart_scraper (between line 251 and line 253) the monitor reads None
ScraperSeenByMonitor ==
    {scraper} \cup
    (IF pc = "except" /\ RestartDue(consecutive_failures + 1) /\ scraper = "driver"
     THEN {"none"} ELSE {})

\* lines 309-317: what the liveness probe does with the scraper it read.
\* No scraper: no probe. driver is None: driver.title raises AttributeError. A driver:
\* title answers (the browser is alive) or raises (it was quit after the last fetch).
ProbeOutcomes(sc) ==
    CASE sc = "none"     -> {"skipped"}
      [] sc = "nodriver" -> {"failed"}
      [] sc = "driver"   -> {"passed", "failed"}

\* lines 309-326: the probe; a failed probe calls _restart_scraper; the tick ends
\* with _save_health_status
TickProbe ==
    /\ hpc = "probe"
    /\ \E sc \in ScraperSeenByMonitor : \E o \in ProbeOutcomes(sc) :
          CASE o = "skipped" ->
                  /\ probe' = [outcome |-> o, restarted |-> FALSE]
                  /\ UNCHANGED << health_status, scraper, consecutive_failures >>
            [] o = "passed" ->
                  /\ probe' = [outcome |-> o, restarted |-> FALSE]
                  /\ health_status' = [health_status EXCEPT !.status = "healthy"]
                  /\ UNCHANGED << scraper, consecutive_failures >>
            [] o = "failed" ->
                  \E r \in RestartScraperOutcomes(scraper) :
                      /\ probe' = [outcome |-> o, restarted |-> TRUE]
                      /\ scraper' = r.scraper
                      /\ consecutive_failures' = IF r.ok THEN 0 ELSE consecutive_failures
                      /\ UNCHANGED health_status
    /\ health_file' = health_status'.status
    /\ hpc' = IF is_running THEN "wait" ELSE "off"
    /\ UNCHANGED << now, file, seen_courses, pc, result, last_successful_check,
                    is_running, loadRaised, backup >>
    /\ UNCHANGED locals
    /\ UNCHANGED history
    /\ UNCHANGED counting
    /\ UNCHANGED << scheduler, basic >>

\* lines 299-302 and 319-326: a tick that finds no stale successful check only logs
\* and writes the health file
TickSave ==
    /\ hpc = "wait" /\ is_running
    /\ ~TickDue(now, last_successful_check)
    /\ health_file' = health_status.status
    /\ UNCHANGED << now, file, seen_courses, pc, result, consecutive_failures,
                    health_status, loadRaised, backup >>
    /\ UNCHANGED locals
    /\ UNCHANGED history
    /\ UNCHANGED << monitor, recovery, counting >>
    /\ UNCHANGED << scheduler, basic >>

\* lines 138-141 and 394-408: stop(), from a signal handler at any point or from the
\* end of run_scheduler; a monitor thread that is waiting ends at its next loop test
StopBody ==
    /\ is_running' = FALSE
    /\ health_status' = [health_status EXCEPT !.status = "stopped"]
    /\ health_file' = "stopped"
    /\ hpc' = IF hpc = "wait" THEN "off" ELSE hpc
    /\ UNCHANGED << now, file, seen_courses, pc, result, consecutive_failures,
                    probe, loadRaised, backup >>
    /\ UNCHANGED locals
    /\ UNCHANGED history
    /\ UNCHANGED << recovery, counting >>
    /\ UNCHANGED basic

\* stop() called from the signal handler
Stop ==
    /\ pc # "crashed"
    /\ is_running \/ health_status.status # "stopped" \/ health_file # "stopped"
    /\ StopBody
    /\ UNCHANGED scheduler

\* failure-counting runs: more cycles of one process, fetches from FetchResultsLong
NextLong ==
    \/ CycleStartUpTo(MaxCyclesLong)
    \/ FetchFrom(FetchResultsLong)
    \/ ProcessCourse
    \/ Notify
    \/ CommitNew
    \/ SaveNew
    \/ UpdateExisting
    \/ SaveAll
    \/ CleanupOldCourses
    \/ CycleSuccess
    \/ CycleException
    \/ Restart

SpecLong == Init /\ [][NextLong]_vars

\* the scheduler with its health-monitor thread and shutdown; every fetch returns one
\* course or raises
FetchResultsMonitor == { r \in FetchResultsLong : r.kind = "raise" \/ r.items # << >> }

NextMonitor ==
    \/ CycleStartUpTo(MaxCyclesLong)
    \/ FetchFrom(FetchResultsMonitor)
    \/ ProcessCourse
    \/ Notify
    \/ CommitNew
    \/ SaveNew
    \/ UpdateExisting
    \/ SaveAll
    \/ CleanupOldCourses
    \/ CycleSuccess
    \/ CycleException
    \/ Sleep
    \/ RunScheduler
    \/ TickCheck
    \/ TickProbe
    \/ TickSave
    \/ Stop

\* the agent of these runs found no seen-courses file
InitMonitor == Init /\ file = FileMissing

SpecMonitor == InitMonitor /\ [][NextMonitor]_vars

\* check_for_new_courses is straight-line code with bounded calls: a cycle that has
\* begun goes on to its return unless the process dies
CycleBody ==
    \/ Fetch
    \/ ProcessCourse
    \/ Notify
    \/ CommitNew
    \/ SaveNew
    \/ UpdateExisting
    \/ SaveAll
    \/ CleanupOldCourses
    \/ CycleSuccess
    \/ CycleException

SpecFair == Spec /\ WF_vars(CycleBody)

\* ------------------------------------------------- run_scheduler, slice by slice
\* line 377: the sleep loop sleeps at most 60 seconds at a time and counts 60
SLICE_SECONDS == 60

\* line 373: sleep_time = CHECK_INTERVAL_HOURS * 3600, in seconds
sleep_time == CHECK_INTERVAL_DAYS * 24 * 3600

\* line 377: min(60, sleep_time - slept)
SliceLength(s) == IF sleep_time - s < SLICE_SECONDS THEN sleep_time - s ELSE SLICE_SECONDS

\* variant: the sleep loop stops after the first slice
SleepGoesOnOneSlice(s, running) == s < SLICE_SECONDS /\ running

\* line 376: the condition of the sleep loop
SleepGoesOn(s, running) == s < sleep_time /\ running

\* lines 354-361: run_scheduler begins
SchedulerStart ==
    /\ sched = "off"
    /\ StartScheduler
    /\ sched' = "first"
    /\ slept' = 0 /\ elapsed' = 0

\* line 364: the cycle run at once; is_running is not read
ImmediateCycle ==
    /\ sched = "first"
    /\ CycleBegin(MaxCycles)
    /\ sched' = "cycle"
    /\ UNCHANGED << slept, elapsed >>

\* lines 367-374: the cycle has returned; the loop test, then slept = 0
SchedulerLoop ==
    /\ sched = "cycle" /\ pc = "idle"
    /\ sched' = IF is_running THEN "sleep" ELSE "exit"
    /\ slept' = 0 /\ elapsed' = 0
    /\ UNCHANGED << now, file, seen_courses, pc, result, consecutive_failures, health_status,
                    loadRaised, backup, health_file >>
    /\ UNCHANGED locals
    /\ UNCHANGED history
    /\ UNCHANGED << monitor, recovery, counting >>
    /\ UNCHANGED basic

\* lines 376-377: the loop condition holds and time.sleep begins
SliceBegin ==
    /\ sched = "sleep"
    /\ SleepGoesOn(slept, is_running)
    /\ sched' = "slice"
    /\ UNCHANGED << slept, elapsed >>
    /\ UNCHANGED << now, file, seen_courses, pc, result, consecutive_failures, health_status,
                    loadRaised, backup, health_file >>
    /\ UNCHANGED locals
    /\ UNCHANGED history
    /\ UNCHANGED << monitor, recovery, counting >>
    /\ UNCHANGED basic

\* lines 377-382: time.sleep returns and slept is counted up; the break of line 382
\* leads where the failed loop condition leads. The clock shows a day more when the
\* whole interval has been slept.
SliceEnd ==
    /\ sched = "slice"
    /\ sched' = "sleep"
    /\ slept' = slept + SLICE_SECONDS
    /\ elapsed' = elapsed + SliceLength(slept)
    /\ now' = IF elapsed + SliceLength(slept) = sleep_time
              THEN now + CHECK_INTERVAL_DAYS ELSE now
    /\ UNCHANGED << file, seen_courses, pc, result, consecutive_failures, health_status,
                    loadRaised, backup, health_file >>
    /\ UNCHANGED locals
    /\ UNCHANGED history
    /\ UNCHANGED << monitor, recovery, counting >>
    /\ UNCHANGED basic

\* lines 384-385 and 367: after the sleep loop the next cycle is run when is_running
\* holds; otherwise the outer loop ends
Wake ==
    /\ sched = "sleep"
    /\ ~SleepGoesOn(slept, is_running)
    /\ IF is_running
       THEN /\ CycleBegin(MaxCycles)
            /\ sched' = "cycle"
       ELSE /\ sched' = "exit"
            /\ UNCHANGED << now, file, seen_courses, pc, result, consecutive_failures,
                            health_status, loadRaised, backup, health_file >>
            /\ UNCHANGED locals
            /\ UNCHANGED history
            /\ UNCHANGED << monitor, recovery, counting >>
            /\ UNCHANGED basic
    /\ UNCHANGED << slept, elapsed >>

\* lines 391-392: finally: self.stop()
SchedulerExit ==
    /\ sched = "exit"
    /\ StopBody
    /\ sched' = "done"
    /\ UNCHANGED << slept, elapsed >>

NextScheduler ==
    \/ SchedulerStart
    \/ ImmediateCycle
    \/ FetchFrom(FetchResultsMonitor)
    \/ ProcessCourse
    \/ Notify
    \/ CommitNew
    \/ SaveNew
    \/ UpdateExisting
    \/ SaveAll
    \/ CleanupOldCourses
    \/ CycleSuccess
    \/ CycleException
    \/ SchedulerLoop
    \/ SliceBegin
    \/ SliceEnd
    \/ Wake
    \/ SchedulerExit
    \/ Stop

SpecScheduler == InitMonitor /\ [][NextScheduler]_vars

\* ------------------------------------------------- the basic agent, udemy_agent.py
MaxCyclesBasic == 3

\* the listing source returns a list or raises (selenium_scraper.py lines 148-153)
BasicFetchResults ==
    { [kind |-> "list", items |-> c] : c \in Fetches }
    \cup { [kind |-> "raise", items |-> << >>] }

\* udemy_agent.py lines 62-71: the fetched courses whose id is not in the seen set
BasicNewCourses(cs, seen) == SelectSeq(cs, LAMBDA c : c.id \notin seen)

\* line 66: course_id after the loop is the id of the last fetched course
BasicLastId(cs) == IF cs = << >> THEN "unset" ELSE cs[Len(cs)].id

\* line 80: seen_courses.update(course_id for course in new_courses); the generator
\* yields the variable course_id of the enclosing loop once per new course
BasicNotified(seen, new, course_id) == seen \cup { course_id : c \in Range(new) }

\* variant: the ids no longer fetched are kept
BasicCleanedKeep(seen, current) == seen

\* line 90: the ids no longer fetched are dropped
BasicCleaned(seen, current) == seen \cap current

\* lines 40-50: _save_seen_courses, with the outcomes of SaveOutcomes
BasicSavedFile(outcome, ids) ==
    CASE outcome = "ok"          -> BasicFileOk(ids)
      [] outcome = "open_failed" -> basic_file
      [] outcome = "dump_failed" -> BasicFileMalformed

\* lines 56-71 and 93-94: the fetch and the loop over the fetched courses; an
\* exception of the fetch is logged and ends the cycle
BasicFetch ==
    /\ basic_pc = "idle"
    /\ basic_cycles < MaxCyclesBasic
    /\ basic_cycles' = basic_cycles + 1
    /\ basic_seen0' = basic_seen
    /\ basic_success' = "none"
    /\ \E r \in BasicFetchResults :
          IF r.kind = "raise"
          THEN /\ basic_pc' = "idle"
               /\ basic_result' = "raised"
               /\ basic_new' = << >> /\ basic_current' = {}
               /\ basic_course_id' = "unset"
          ELSE /\ basic_new' = BasicNewCourses(r.items, basic_seen)
               /\ basic_current' = IdsOf(r.items)
               /\ basic_course_id' = BasicLastId(r.items)
               /\ basic_pc' = IF BasicNewCourses(r.items, basic_seen) # << >>
                              THEN "notify" ELSE "cleanup"
               /\ basic_result' = "running"
    /\ UNCHANGED << basic_seen, basic_file, basic_lastSave >>
    /\ UNCHANGED agent

\* lines 74-84: the notifier is called with the batch; when it accepts, the seen set
\* is updated and saved
BasicNotify ==
    /\ basic_pc = "notify"
    /\ \E ok \in BOOLEAN :
          /\ basic_success' = IF ok THEN "true" ELSE "false"
          /\ IF ok
             THEN /\ basic_seen' = BasicNotified(basic_seen, basic_new, basic_course_id)
                  /\ \E outcome \in SaveOutcomes :
                        /\ basic_file' = BasicSavedFile(outcome, basic_seen')
                        /\ basic_lastSave' = SaveStatus(outcome)
             ELSE UNCHANGED << basic_seen, basic_file, basic_lastSave >>
    /\ basic_pc' = "cleanup"
    /\ UNCHANGED << basic_new, basic_current, basic_course_id, basic_seen0, basic_result,
                    basic_cycles >>
    /\ UNCHANGED agent

\* lines 88-91: the seen set is cut down to the fetched ids and saved
BasicCleanup ==
    /\ basic_pc = "cleanup"
    /\ basic_seen' = BasicCleaned(basic_seen, basic_current)
    /\ \E outcome \in SaveOutcomes :
          /\ basic_file' = BasicSavedFile(outcome, basic_seen')
          /\ basic_lastSave' = SaveStatus(outcome)
    /\ basic_pc' = "idle"
    /\ basic_result' = "done"
    /\ UNCHANGED << basic_new, basic_current, basic_course_id, basic_success, basic_seen0,
                    basic_cycles >>
    /\ UNCHANGED agent

\* lines 22-25: a basic agent is constructed and loads the file
InitBasic ==
    /\ InitAgent
    /\ file = FileMissing
    /\ basic_file \in BasicInitFiles
    /\ basic_seen = BasicLoadSeenCourses(basic_file)
    /\ basic_pc = "idle"
    /\ basic_new = << >> /\ basic_current = {} /\ basic_course_id = "unset"
    /\ basic_success = "none"
    /\ basic_seen0 = {} /\ basic_lastSave = "none" /\ basic_result = "none"
    /\ basic_cycles = 0

NextBasic ==
    \/ BasicFetch
    \/ BasicNotify
    \/ BasicCleanup

SpecBasic == InitBasic /\ [][NextBasic]_vars

TypeOK ==
    /\ now \in StartTime..MaxTime
    /\ pc \in {"idle", "fetch", "loop", "notify", "commit_new", "save_new", "update",
                "save", "cleanup", "finish", "except", "crashed"}
    /\ DOMAIN seen_courses \subseteq Ids
    /\ file.kind \in {"ok", "missing", "malformed", "notdict"}
    /\ scraper \in {"none", "nodriver", "driver"}
    /\ is_running \in BOOLEAN
    /\ hpc \in {"off", "wait", "probe"}
    /\ health_status.status \in {"starting", "healthy", "degraded", "error", "stopped"}
    /\ last_successful_check \in {-1} \cup (StartTime..MaxTime)
    /\ fetch_kind \in {"unset", "list", "none", "raise", "setup_failed"}
    /\ consecutive_failures \in 0..MaxCyclesLong
    /\ health_file \in {"absent", "starting", "healthy", "degraded", "error", "stopped"}
    /\ sched \in {"off", "first", "cycle", "sleep", "slice", "exit", "done"}
    /\ slept \in 0..(SLICE_SECONDS * ((sleep_time + SLICE_SECONDS - 1) \div SLICE_SECONDS))
    /\ elapsed \in 0..sleep_time
    /\ basic_pc \in {"off", "idle", "notify", "cleanup"}
    /\ basic_seen \subseteq Ids
    /\ basic_file.kind \in {"ok", "missing", "malformed"}

\* ------------------------------------------------------------ properties
\* is this stored timestamp older than the retention window at clock reading t?
Parsable(ls) == ls.k \in {"naive", "aware"}
OlderThanWindow(ls, t) == Parsable(ls) /\ ls.t < t - RETENTION_DAYS

\* C1 as stated: after a cycle whose notifier call returned false for a batch
\* containing X, X is in neither the in-memory nor the persisted seen set, and the
\* next cycle that fetches X puts X in its new-items batch again.
C1_RefusedAbsentEverywhere ==
    /\ (pc = "finish" /\ success = "false") =>
          \A X \in NewIds : X \notin DOMAIN seen_courses /\ X \notin FileIds(file)
    /\ LoopDone => \A X \in failedNew : X \in FetchedIds => X \in NewIds

\* C1 amended: after such a cycle X is not in the in-memory seen set, and not in the
\* persisted one whenever the last write of the cycle succeeded; the next cycle of the
\* agent that fetches X puts X in its new-items batch again.
C1_RefusedNotCommitted ==
    /\ (pc = "finish" /\ success = "false") =>
          \A X \in NewIds :
              /\ X \notin DOMAIN seen_courses
              /\ lastSave = "ok" => X \notin FileIds(file)
    /\ (pc # "crashed") => \A X \in failedNew : X \notin DOMAIN seen_courses
    /\ LoopDone => \A X \in failedNew : X \in FetchedIds => X \in NewIds

\* C1 witness: a later cycle is about to notify a batch holding a refused id again
C1_Witness == pc = "notify" /\ ncycles = 2 /\ failedNew \cap NewIds # {}

\* C2: every id in the seen set, in memory or on disk, that the first loaded file did
\* not hold was in a batch the notifier accepted.
C2_SeenOnlyIfReported ==
    (DOMAIN seen_courses \cup FileIds(file)) \subseteq (initIds \cup notified)

\* C2 witness: after a crash and a restart the agent holds an id it reported itself
C2_Witness ==
    /\ pc = "idle" /\ ncrashes > 0
    /\ (DOMAIN seen_courses \ initIds) # {}
    /\ failedNew # {}

\* C3: if X is not in the seen set, every fetch returns X, the process does not die
\* and the notifier returns true at some point, then X is eventually in an accepted
\* batch and in the seen set.
InCycleAfterFetch ==
    pc \in {"loop", "notify", "commit_new", "save_new", "update", "save", "cleanup",
            "finish", "except"}

C3_RetriedUntilDelivered ==
    \A X \in Ids :
        ( /\ X \notin DOMAIN seen_courses
          /\ [](InCycleAfterFetch => X \in FetchedIds)
          /\ [](pc # "crashed")
          /\ <>(success = "true") )
        => <>(X \in DOMAIN seen_courses /\ X \in notified)

\* C3 witness: an id refused in the previous cycle is committed after a retry
C3_Witness ==
    /\ pc = "save_new" /\ prevSuccess = "false"
    /\ \E X \in NewIds :
          /\ X \in { i.id : i \in prevFetch }
          /\ X \in DOMAIN seen_courses /\ X \notin DOMAIN seen0

\* C4: when a cycle fetches the item set of the previous cycle and that cycle's
\* notification succeeded, its new-items batch is empty and every fetched item has
\* seen_count one larger than before and the first_seen it had.
C4_IdempotentRepoll ==
    (pc = "finish" /\ prevSuccess = "true" /\ Range(courses) = prevFetch) =>
        /\ new_courses = << >>
        /\ calls = 0
        /\ \A id \in FetchedIds :
              /\ id \in DOMAIN seen0 /\ id \in DOMAIN seen_courses
              /\ seen_courses[id].seen_count = seen0[id].seen_count + 1
              /\ seen_courses[id].first_seen = seen0[id].first_seen

\* C4 witness: a second cycle with the same fetch, after the clock moved, has finished
C4_Witness ==
    /\ pc = "finish" /\ prevSuccess = "true" /\ Range(courses) = prevFetch
    /\ Len(courses) = 2
    /\ now > health_status.last_check

\* C5 as stated: once the notifier returned true and the batch is committed, every
\* item of the batch has seen_count 1 and first_seen = last_seen = the cycle time, and
\* emails_sent counts the notifier calls that returned true.
C5_NewEntriesStampedOnce ==
    (pc \in {"save_new", "update", "save"} /\ success = "true") =>
        /\ \A id \in NewIds :
              /\ id \in DOMAIN seen_courses
              /\ seen_courses[id].seen_count = 1
              /\ seen_courses[id].last_seen.k = "naive"
              /\ seen_courses[id].first_seen = seen_courses[id].last_seen.t
        /\ health_status.emails_sent = trueCalls

\* C6: a cycle calls the notifier at most once, and exactly when its new-items batch
\* is not empty; a cycle that fetched nothing new, or nothing, makes no call.
C6_NotifierOncePerBatch ==
    /\ calls <= 1
    /\ pc \in {"update", "save", "cleanup", "finish"} =>
          /\ calls = 1 <=> new_courses # << >>
          /\ FetchedIds \subseteq DOMAIN seen0 => calls = 0
    /\ pc \in {"fetch", "loop", "notify", "except"} => calls = 0

\* C6 witness: a cycle that fetched only known courses has finished without a call
C6_Witness == pc = "finish" /\ calls = 0 /\ Len(courses) > 0

\* C7: every fetched item that was in the seen set when the cycle began ends the
\* cycle with seen_count = prior + 1 and last_seen = a clock reading of this cycle,
\* whatever the notifier did; and the seen set is untouched until the notifier returned.
C7_PendingUpdatesCommitted ==
    /\ pc = "finish" =>
          \A id \in FetchedIds \cap DOMAIN seen0 :
              /\ id \in DOMAIN seen_courses
              /\ seen_courses[id].seen_count = seen0[id].seen_count + 1
              /\ seen_courses[id].last_seen.k = "naive"
              /\ seen_courses[id].last_seen.t >= health_status.last_check
              /\ seen_courses[id].last_seen.t <= now
    /\ pc \in {"fetch", "loop", "notify", "commit_new"} => seen_courses = seen0

\* C7 witness: a known course was fetched beside a new one the notifier refused
C7_Witness ==
    /\ pc = "finish" /\ success = "false"
    /\ FetchedIds \cap DOMAIN seen0 # {}

\* C8: every cycle that reaches its end has tried to save; whenever the last write
\* succeeded the file holds exactly the in-memory seen set; a failed write neither
\* stops the cycle nor changes the in-memory seen set; a successful write stores the
\* in-memory seen set as it is then.
C8_Step ==
    LET wrote == saves' = saves + 1
        pruned == Without(seen_courses, CoursesToRemove(seen_courses, now - RETENTION_DAYS))
    IN  /\ (wrote /\ lastSave' = "failed") =>
              /\ seen_courses' = IF pc = "cleanup" THEN pruned ELSE seen_courses
              /\ pc' = CASE pc = "save_new" -> "update"
                         [] pc = "save"     -> "cleanup"
                         [] pc = "cleanup"  -> "finish"
                         [] OTHER           -> "none"
        /\ (wrote /\ lastSave' = "ok") => file' = FileOk(seen_courses')
        /\ pc' = "finish" => saves' >= 1
        /\ (pc' \in {"cleanup", "finish", "idle", "fetch", "loop", "notify", "except"}
               /\ lastSave' = "ok") => file' = FileOk(seen_courses')

C9_Step ==
    (pc = "cleanup" /\ pc' = "finish") =>
        LET stale == { id \in DOMAIN seen_courses :
                          OlderThanWindow(seen_courses[id].last_seen, now) }
        IN  /\ seen_courses' = Without(seen_courses, stale)
            /\ saves' # saves <=> stale # {}

C9_PruneExactlyStale == [][C9_Step]_vars

\* C10: an entry whose id the cycle did not fetch is left as it was, unless its
\* last_seen is older than the retention window.
C10_AbsentEntriesKept ==
    /\ pc = "finish" =>
          \A id \in DOMAIN seen0 \ FetchedIds :
              \/ id \in DOMAIN seen_courses /\ seen_courses[id] = seen0[id]
              \/ OlderThanWindow(seen0[id].last_seen, now)
    /\ pc = "except" => seen_courses = seen0

\* C10 witness: a cycle that fetched something else has kept an entry it did not fetch
C10_Witness ==
    /\ pc = "finish" /\ Len(courses) > 0
    /\ \E id \in DOMAIN seen0 \ FetchedIds : id \in DOMAIN seen_courses

\* a step that ends a cycle: the return at line 231 or at line 244
CycleEnds == pc \in {"finish", "except"} /\ pc' = "idle"

Fresh == pc = "idle" /\ health_status = InitHealth

\* C12 as stated: loading the seen set never raises; a missing file gives an empty
\* seen set; a malformed file gives an empty seen set and a backup copy, and stays.
C12_LoadNeverRaises ==
    /\ ~loadRaised
    /\ (Fresh /\ file.kind = "missing") => seen_courses = EmptyMap
    /\ (Fresh /\ file.kind = "malformed") =>
          /\ seen_courses = EmptyMap
          /\ backup = file

\* C13 as stated: the cycle that makes max_consecutive_failures failed cycles in a row
\* calls _restart_scraper exactly once, and no cycle calls it after fewer.
C13_Step ==
    CycleEnds =>
        /\ failStreak' = max_consecutive_failures => restarts' = 1
        /\ restarts' > restarts => failStreak' = max_consecutive_failures

C13_RestartAtFifthFailure == [][C13_Step]_vars

\* C14 as stated: a cycle that returns True leaves consecutive_failures = 0 and
\* last_successful_check = now; a cycle that returns False has added one failure (or
\* restarted the scraper) and left last_successful_check alone; no cycle both counts a
\* failure and updates last_successful_check.
C14_Step ==
    /\ (pc = "finish" /\ pc' = "idle") =>
          /\ consecutive_failures' = 0
          /\ last_successful_check' = now
    /\ (pc = "except" /\ pc' = "idle") =>
          /\ consecutive_failures' = cf0 + 1 \/ restarts' > restarts
          /\ last_successful_check' = last_successful_check

C14_FailureTrackingConsistent == [][C14_Step]_vars

\* C15 as stated: at the end of every cycle consecutive_failures is below
\* max_consecutive_failures unless that cycle called _restart_scraper and the restart
\* failed, whichever path counted the failure.
C15_RecoveryAtThreshold ==
    (pc = "idle" /\ consecutive_failures >= max_consecutive_failures) => restarts >= 1

\* C16: an exception in a cycle's body is caught: the cycle returns False, status
\* becomes error and errors grows by one; a cycle without exception returns True with
\* status healthy.
C16_Step ==
    /\ (pc = "fetch" /\ fetch_kind' = "raise") => pc' = "except"
    /\ (pc = "except" /\ pc' = "idle") =>
          /\ result' = "false"
          /\ health_status'.status = "error"
          /\ health_status'.errors = health_status.errors + 1
    /\ (pc = "finish" /\ pc' = "idle") =>
          /\ result' = "true"
          /\ health_status'.status = "healthy"
          /\ fetch_kind # "raise"

C16_ExceptionsCaught == [][C16_Step]_vars

\* C16 witness: a process whose earlier cycle succeeded has returned False from a cycle
C16_Witness ==
    /\ pc = "idle" /\ result = "false"
    /\ health_status.status = "error" /\ health_status.errors = 1
    /\ last_successful_check >= 0

\* C17 as stated: a fetch that returned None or raised is handled as an empty list:
\* no new items, no notifier call, the seen set is saved, the prune pass runs and the
\* cycle returns True.
C17_Step ==
    (CycleEnds /\ fetch_kind \in {"none", "raise"}) =>
        /\ new_courses = << >> /\ calls = 0
        /\ saves >= 1
        /\ pc = "finish"
        /\ result' = "true"

C17_FailedFetchAsEmpty == [][C17_Step]_vars

\* C18 as stated: every cycle whose fetch failed (it raised, returned None, or
\* returned [] because the driver could not be set up) adds one to
\* consecutive_failures (or restarts the scraper).
C18_Step ==
    (CycleEnds /\ fetch_kind \in {"none", "raise", "setup_failed"}) =>
        consecutive_failures' = cf0 + 1 \/ restarts' > restarts

C18_FetchFailureCounted == [][C18_Step]_vars

\* C19 as stated: a health tick that finds the last successful check more than 1.5
\* poll intervals old marks the status degraded and probes the scraper, and a probe
\* that fails calls _restart_scraper.
C19_Step ==
    /\ (hpc = "wait" /\ hpc' = "probe") =>
          /\ Stale(now, last_successful_check)
          /\ health_status'.status = "degraded"
    /\ (hpc = "probe" /\ hpc' # "probe") =>
          /\ probe'.outcome \in {"passed", "failed"}
          /\ probe'.outcome = "failed" => probe'.restarted

C19_StaleTickProbes == [][C19_Step]_vars

\* the edges of the documented status machine
DocumentedEdges ==
    { <<"starting", "healthy">>, <<"healthy", "degraded">>, <<"degraded", "healthy">>,
      <<"degraded", "error">>, <<"error", "healthy">> }
    \cup { <<x, "stopped">> : x \in {"starting", "healthy", "degraded", "error"} }

\* C20 as stated: the status changes only along the documented edges.
C20_Step ==
    health_status'.status # health_status.status =>
        <<health_status.status, health_status'.status>> \in DocumentedEdges

C20_DocumentedEdgesOnly == [][C20_Step]_vars

\* C26 as stated: in the basic agent, when the notifier returns true the ids of all
\* courses of the notified batch are in seen_courses, and when it returns false none
\* is added.
C26_NotifiedIdsAdded ==
    /\ (basic_pc = "cleanup" /\ basic_success = "true") =>
          IdsOf(basic_new) \subseteq basic_seen
    /\ (basic_pc = "cleanup" /\ basic_success = "false") => basic_seen = basic_seen0

\* C30 as stated: in the basic agent, after every cycle that does not raise, the seen
\* set in memory and the persisted one are subsets of the ids the cycle fetched.
C30_SeenWithinFetched ==
    (basic_pc = "idle" /\ basic_result = "done") =>
        /\ basic_seen \subseteq basic_current
        /\ BasicLoadSeenCourses(basic_file) \subseteq basic_current

\* C30 amended: after every cycle that does not raise, the seen set in memory holds
\* exactly the previously or newly recorded ids that the cycle fetched, so it is a subset
\* of the fetched ids and empty after an empty fetch; the persisted set equals it
\* whenever the last write of the cycle succeeded.
C30_SeenWithinFetchedInMemory ==
    (basic_pc = "idle" /\ basic_result = "done") =>
        /\ basic_seen \subseteq basic_current
        /\ basic_seen0 \cap basic_current \subseteq basic_seen
        /\ basic_lastSave = "ok" => basic_file = BasicFileOk(basic_seen)

C30_Witness ==
    /\ basic_pc = "idle" /\ basic_result = "done"
    /\ basic_seen0 \ basic_current # {}
    /\ basic_seen # {}
    /\ basic_lastSave = "ok"

\* C27: an item whose entry is in the seen set is never put in a notifier batch; an
\* item committed after a successful notification is reported again only once its
\* entry has left the seen set.
C27_NoDuplicateReport ==
    pc = "notify" => \A X \in NewIds : X \notin DOMAIN seen_courses

C27_Witness ==
    /\ pc = "notify"
    /\ \E X \in notified \cap FetchedIds : X \in DOMAIN seen_courses /\ X \notin NewIds

\* C28 as stated: when one fetch returns the same id more than once, the notifier
\* batch holds that id at most once, the seen set gets a single entry for it, and the
\* seen_count of an id already known grows by exactly 1 in that cycle.
C28_DuplicatesCollapse ==
    /\ pc = "notify" => Cardinality(NewIds) = Len(new_courses)
    /\ pc = "finish" =>
          \A id \in FetchedIds \cap DOMAIN seen0 \cap DOMAIN seen_courses :
              seen_courses[id].seen_count = seen0[id].seen_count + 1

\* C29 as stated: every entry of the seen set has seen_count >= 1 and a first_seen
\* that is not later than its last_seen, in every state, and the first_seen of an
\* entry never changes while the entry stays in the seen set.
C29_EntryInvariant ==
    /\ [](\A id \in DOMAIN seen_courses :
            /\ seen_courses[id].seen_count >= 1
            /\ seen_courses[id].last_seen.k = "naive" =>
                  seen_courses[id].first_seen <= seen_courses[id].last_seen.t)
    /\ [][\A id \in DOMAIN seen_courses \cap DOMAIN seen_courses' :
            seen_courses'[id].first_seen = seen_courses[id].first_seen]_vars

\* C21 as stated: once stop() has set the status to stopped, no step of a cycle in
\* flight or of the health-monitor thread changes the in-memory status, and the health
\* file keeps the status stopped.
C21_Step ==
    health_status.status = "stopped" =>
        /\ health_status'.status = "stopped"
        /\ health_file' = "stopped"
C21_StoppedIsTerminal == [][C21_Step]_vars

\* a step of the health-monitor thread
MonitorStep == hpc \in {"wait", "probe"} /\ hpc' # hpc /\ is_running' = is_running

\* C24 as stated: a health tick replaces the scraper, resets consecutive_failures or
\* writes the status only while no cycle is in flight, so that no write of a cycle to
\* consecutive_failures or to the status is overwritten by a tick in between.
C24_Step ==
    MonitorStep =>
        \/ pc = "idle"
        \/ /\ scraper' = scraper
           /\ consecutive_failures' = consecutive_failures
           /\ health_status' = health_status
C24_TicksExcludeCycles == [][C24_Step]_vars

\* C25: a failed recovery is caught: the cycle returns False, the scheduler flag and
\* the monitor thread are left as they were, and every later cycle that raises while
\* consecutive_failures is at or above the maximum calls _restart_scraper again; the
\* flag is cleared only by stop().
C25_Step ==
    /\ (pc = "except" /\ pc' = "idle") =>
          /\ result' = "false"
          /\ is_running' = is_running /\ hpc' = hpc
          /\ consecutive_failures >= max_consecutive_failures => restarts' = restarts + 1
    /\ (is_running /\ ~is_running') => health_status'.status = "stopped"
C25_RecoveryFailureNotFatal == [][C25_Step]_vars

C25_Witness ==
    /\ pc = "idle" /\ result = "false"
    /\ is_running
    /\ cf0 >= max_consecutive_failures
    /\ restarts = 1
    /\ consecutive_failures > cf0

\* ceil(a / b) for positive b
CeilDiv(a, b) == (a + b - 1) \div b

\* C22: run_scheduler begins with one cycle, run before any sleep; every later cycle
\* begins only when the sleep loop has slept the whole poll interval since the cycle
\* before it returned, in slices of at most 60 seconds; the sleep loop ends after
\* ceil(poll interval / 60) slices, never later.
C22_Step ==
    /\ (sched = "first" /\ sched' # "first") =>
          sched' = "cycle" /\ pc' = "fetch" /\ elapsed = 0 /\ slept = 0
    /\ (pc = "idle" /\ pc' = "fetch") => sched \in {"first", "sleep"}
    /\ (sched = "sleep" /\ sched' = "cycle") =>
          /\ elapsed = sleep_time
          /\ slept = SLICE_SECONDS * CeilDiv(sleep_time, SLICE_SECONDS)
    /\ elapsed' # elapsed => elapsed' = 0 \/ elapsed' - elapsed \in 1..SLICE_SECONDS
    /\ slept' <= SLICE_SECONDS * CeilDiv(sleep_time, SLICE_SECONDS)
C22_FullIntervalBetweenCycles == [][C22_Step]_vars

C22_Witness ==
    /\ sched = "cycle" /\ pc = "fetch"
    /\ ncycles = 2
    /\ elapsed = sleep_time

\* C23 as stated: once stop() has cleared is_running, no cycle begins and no further
\* sleep slice begins.
C23_Step ==
    ~is_running =>
        /\ ~(pc = "idle" /\ pc' = "fetch")
        /\ ~(sched = "sleep" /\ sched' = "slice")
C23_NoCycleAfterCancel == [][C23_Step]_vars

====
